---------------------------- MODULE Spec2Model ----------------------------
(***************************************************************************)
(* A model of main.py of OpenDelek: the OpenDelek facade (__init__,        *)
(* process_request, health_check) and the entry point main().              *)
(*                                                                         *)
(* The three collaborators (SnowflakeConfig, ComplianceManager,            *)
(* DelekOrchestrator) are imported by main.py but not part of the source   *)
(* tree; every call to one of them is a step whose outcome (a returned     *)
(* value or a raised exception) is chosen from a small set.                *)
(*                                                                         *)
(* main.py imports uuid and datetime only inside its                       *)
(* `if __name__ == "__main__":` block, so which module globals exist       *)
(* depends on how the module was loaded; `mode` records that.              *)
(*                                                                         *)
(* generate_repo.py, the script that writes the project tree, is modelled   *)
(* over a working directory `fs`: one step per directory it makes and one   *)
(* per file it writes.                                                      *)
(***************************************************************************)
EXTENDS Naturals, Sequences, FiniteSets, TLC

\* ------------------------------------------------------------------ bounds

\* How many process_request calls a behaviour starts.
MaxRequests == 2

\* How many times generate_repo.py is run in one working directory.
MaxRuns == 2

\* ------------------------------------------------------------ value spaces

\* Caller threads.  The host of the sequential specification has one.
Threads == {1, 2}
SeqThreads == {1}

\* user_input values.
Inputs == {"list open invoices", "export payroll"}

\* user_context values (tests/conftest.py sample_user_context, cut down).
Contexts ==
    { [user_id |-> "u1", role |-> "DELEK_USER"],
      [user_id |-> "u2", role |-> "DELEK_ADMIN"] }

\* config_path values: the default of __init__ and one other.
DefaultConfigPath == "config/snowflake_config.toml"
ConfigPaths == {DefaultConfigPath, "other.toml"}

\* Outcomes of a call: a returned value or a raised exception.
Return(v) == [kind |-> "return", value |-> v]
Raise(e) == [kind |-> "raise", exc |-> e]
NoOutcome == [kind |-> "none"]

\* Exceptions a collaborator raises (subclasses of Exception).
CollaboratorExceptions == {"RuntimeError", "ValueError"}

\* ComplianceResult values: is_compliant and a reason.
ComplianceResults ==
    { [is_compliant |-> FALSE, reason |-> "contains restricted keyword"],
      [is_compliant |-> FALSE, reason |-> "role not permitted"],
      [is_compliant |-> TRUE, reason |-> ""],
      [is_compliant |-> TRUE, reason |-> "approved for role"] }

\* TaskResult values returned by execute_task.
TaskResults ==
    { [status |-> "completed", result |-> "3 invoices found"],
      [status |-> "failed", message |-> "agent unavailable"] }

\* What each collaborator call can do.
ValidateOutcomes ==
    {Return(cr) : cr \in ComplianceResults}
        \cup {Raise(e) : e \in CollaboratorExceptions}
ExecuteOutcomes ==
    {Return(tr) : tr \in TaskResults}
        \cup {Raise(e) : e \in CollaboratorExceptions}
LogOutcomes == {Return("None")} \cup {Raise(e) : e \in CollaboratorExceptions}
ProbeOutcomes ==
    {Return(b) : b \in BOOLEAN} \cup {Raise(e) : e \in CollaboratorExceptions}
ConstructorOutcomes ==
    {Return("instance")} \cup {Raise(e) : e \in CollaboratorExceptions}

\* --------------------------------------------------------------- variables

VARIABLES
    mode,               \* "script": python main.py; "imported": import main
    owner,              \* who holds the facade instance: "none", "main", "caller"
    config_path,        \* argument of OpenDelek.__init__
    initPc,             \* position in OpenDelek.__init__
    initTrace,          \* constructor calls made by __init__, in order
    initRet,            \* outcome of OpenDelek(...)
    config,             \* self.config
    compliance_manager, \* self.compliance_manager
    orchestrator,       \* self.orchestrator
    pc,                 \* per thread: position in process_request
    user_input,         \* per thread: argument of process_request
    user_context,       \* per thread: argument of process_request
    compliance_result,  \* per thread: local of process_request
    result,             \* per thread: local of process_request
    trace,              \* per thread: collaborator calls of the current call
    ret,                \* per thread: outcome of the current call
    nRequests,          \* process_request calls started so far
    uuidCount,          \* uuid.uuid4() values generated so far
    errorIds,           \* error_id of every error record returned, in order
    tally,              \* counts of collaborator calls over all requests
    hcPc,               \* position in health_check
    hcProbes,           \* values the probes of the current health_check returned
    hcRet,              \* outcome of the current health_check
    mainPc,             \* position in main()
    mainRet,            \* outcome of main(): its return value is the exit code
    fs,                 \* the working directory of generate_repo.py: path -> entry
    genPc,              \* position in a run of generate_repo.py
    genBefore,          \* fs when the current run of generate_repo.py started
    genRuns,            \* the finished runs of generate_repo.py, in order
    lastCreate          \* the last create_file call made on its own

facadeVars == <<owner, config_path, initPc, initTrace, initRet, config, compliance_manager, orchestrator>>
requestVars == <<pc, user_input, user_context, compliance_result, result, trace, ret,
                 nRequests, uuidCount, errorIds, tally>>
healthVars == <<hcPc, hcProbes, hcRet>>
mainVars == <<mainPc, mainRet>>
mainPyVars == <<mode, facadeVars, requestVars, healthVars, mainVars>>
genVars == <<fs, genPc, genBefore, genRuns, lastCreate>>
vars == <<mainPyVars, genVars>>

\* --------------------------------------------------------- module globals

\* The names main.py binds at module level besides its classes and functions.
\* sys, logging, Path, Dict, Any and the collaborator classes are imported at
\* the top; datetime and uuid are imported only in the __main__ block, and
\* `import datetime` binds the module datetime, not the class datetime.datetime.
ModuleGlobals(m) ==
    IF m = "script" THEN {"uuid", "datetime"} ELSE {}

\* str(uuid.uuid4()) for the n-th identifier generated: a fresh non-empty
\* string (uuid4 draws 122 random bits; a repeat is not modelled).
Uuid4Str(n) == "uuid-" \o ToString(n)

\* Evaluating datetime.now().isoformat() in health_check: the name is unbound
\* when the module was imported, and bound to the module datetime, which has
\* no attribute now, when it was run as a script.
DatetimeNowIsoformat(m) ==
    IF "datetime" \in ModuleGlobals(m)
    THEN Raise("AttributeError")
    ELSE Raise("NameError")

\* ---------------------------------------------------------- process_request

\* The calls process_request makes, with their arguments.
ValidateCall(ui, uc) ==
    [fn |-> "validate_request", user_input |-> ui, user_context |-> uc]

\* ExecuteCall handing the orchestrator a ComplianceResult of its own making
\* instead of the one validate_request returned.
ExecuteCall_OwnContext(ui, uc, cr) ==
    [fn |-> "execute_task", user_input |-> ui, user_context |-> uc,
     compliance_context |-> [is_compliant |-> TRUE, reason |-> ""]]

ExecuteCall(ui, uc, cr) ==
    [fn |-> "execute_task", user_input |-> ui, user_context |-> uc,
     compliance_context |-> cr]

LogCall(ui, uc, tr) ==
    [fn |-> "log_interaction", user_context |-> uc, request |-> ui,
     response |-> tr, compliance_status |-> "COMPLIANT"]

\* One entry of a trace: a call and its outcome.
Entry(call, out) == [call |-> call, out |-> out]

\* IsRejected with the `not` dropped: compliant requests are rejected and
\* non-compliant ones go on to the orchestrator.
IsRejected_Inverted(cr) == cr.is_compliant

\* IsRejected with the gate gone: nothing is rejected.
IsRejected_Never(cr) == FALSE

\* `if not compliance_result.is_compliant:`
IsRejected(cr) == ~cr.is_compliant

\* RejectionRecord with a fixed message that leaves the reason out.
RejectionRecord_NoReason(cr) ==
    [status |-> "rejected",
     message |-> "Request violates corporate policy",
     compliance_status |-> "NON_COMPLIANT"]

\* The record the rejection branch returns.
RejectionRecord(cr) ==
    [status |-> "rejected",
     message |-> "Request violates corporate policy: " \o cr.reason,
     compliance_status |-> "NON_COMPLIANT"]

\* ResultReturned wrapping the orchestrator's record in an envelope of its own.
ResultReturned_Wrapped(tr) == [status |-> "success", result |-> tr]

\* `return result`: what process_request hands back for the TaskResult tr.
ResultReturned(tr) == tr

\* ExceptionHandler numbering the failures in the message it returns.
ExceptionHandler_NumbersFailures(m, n) ==
    IF "uuid" \in ModuleGlobals(m)
    THEN Return([status |-> "error",
                 message |-> "An error occurred processing your request (failure "
                                 \o ToString(n + 1) \o ")",
                 error_id |-> Uuid4Str(n + 1)])
    ELSE Raise("NameError")

\* The `except Exception as e:` handler, when n identifiers were generated
\* before: it logs the error and returns the error record, whose error_id
\* is str(uuid.uuid4()); evaluating the name uuid raises NameError when the
\* module has no such global, and that exception leaves process_request.
ExceptionHandler(m, n) ==
    IF "uuid" \in ModuleGlobals(m)
    THEN Return([status |-> "error",
                 message |-> "An error occurred processing your request",
                 error_id |-> Uuid4Str(n + 1)])
    ELSE Raise("NameError")

\* The facade instance exists and its caller holds it.
FacadeReady == owner = "caller" /\ initPc = "done"

\* Thread c is inside process_request.
InRequest(c) == pc[c] \in {"validate", "execute", "log"}

\* process_request ends for thread c with outcome o.
Finish(c, o) ==
    /\ pc' = [pc EXCEPT ![c] = "done"]
    /\ ret' = [ret EXCEPT ![c] = o]

\* A collaborator call of thread c raised: the handler runs and the call ends.
HandleException(c) ==
    LET o == ExceptionHandler(mode, uuidCount) IN
    /\ Finish(c, o)
    /\ uuidCount' = IF o.kind = "return" THEN uuidCount + 1 ELSE uuidCount
    /\ errorIds' = IF o.kind = "return"
                   THEN Append(errorIds, o.value.error_id)
                   ELSE errorIds

\* Call reloading the configuration for every request.
Call_ReloadsConfig(c, ui, uc) ==
    /\ FacadeReady
    /\ pc[c] \in {"idle", "done"}
    /\ nRequests < MaxRequests
    /\ nRequests' = nRequests + 1
    /\ pc' = [pc EXCEPT ![c] = "validate"]
    /\ user_input' = [user_input EXCEPT ![c] = ui]
    /\ user_context' = [user_context EXCEPT ![c] = uc]
    /\ compliance_result' = [compliance_result EXCEPT ![c] = NoOutcome]
    /\ result' = [result EXCEPT ![c] = NoOutcome]
    /\ trace' = [trace EXCEPT ![c] = <<>>]
    /\ ret' = [ret EXCEPT ![c] = NoOutcome]
    /\ config' = [cls |-> "SnowflakeConfig", config_path |-> "reloaded.toml"]
    /\ UNCHANGED <<genVars, mode, owner, config_path, initPc, initTrace, initRet,
                   compliance_manager, orchestrator, uuidCount, errorIds,
                   tally, healthVars, mainVars>>

\* Call skipping validation: the request goes straight to the orchestrator
\* with a ComplianceResult made up on the spot.
Call_SkipsValidation(c, ui, uc) ==
    /\ FacadeReady
    /\ pc[c] \in {"idle", "done"}
    /\ nRequests < MaxRequests
    /\ nRequests' = nRequests + 1
    /\ pc' = [pc EXCEPT ![c] = "execute"]
    /\ user_input' = [user_input EXCEPT ![c] = ui]
    /\ user_context' = [user_context EXCEPT ![c] = uc]
    /\ compliance_result' = [compliance_result EXCEPT ![c] =
                                [kind |-> "return",
                                 value |-> [is_compliant |-> TRUE, reason |-> ""]]]
    /\ result' = [result EXCEPT ![c] = NoOutcome]
    /\ trace' = [trace EXCEPT ![c] = <<>>]
    /\ ret' = [ret EXCEPT ![c] = NoOutcome]
    /\ UNCHANGED <<genVars, mode, facadeVars, uuidCount, errorIds, tally, healthVars, mainVars>>

\* A caller enters process_request(ui, uc).
Call(c, ui, uc) ==
    /\ FacadeReady
    /\ pc[c] \in {"idle", "done"}
    /\ nRequests < MaxRequests
    /\ nRequests' = nRequests + 1
    /\ pc' = [pc EXCEPT ![c] = "validate"]
    /\ user_input' = [user_input EXCEPT ![c] = ui]
    /\ user_context' = [user_context EXCEPT ![c] = uc]
    /\ compliance_result' = [compliance_result EXCEPT ![c] = NoOutcome]
    /\ result' = [result EXCEPT ![c] = NoOutcome]
    /\ trace' = [trace EXCEPT ![c] = <<>>]
    /\ ret' = [ret EXCEPT ![c] = NoOutcome]
    /\ UNCHANGED <<genVars, mode, facadeVars, uuidCount, errorIds, tally, healthVars, mainVars>>

\* self.compliance_manager.validate_request(user_input, user_context), then
\* the test of is_compliant and the rejection return.
ValidateRequest(c, out) ==
    /\ pc[c] = "validate"
    /\ trace' = [trace EXCEPT ![c] =
                    Append(@, Entry(ValidateCall(user_input[c], user_context[c]), out))]
    /\ IF out.kind = "raise"
       THEN /\ HandleException(c)
            /\ UNCHANGED <<compliance_result, tally>>
       ELSE /\ compliance_result' = [compliance_result EXCEPT ![c] = out]
            /\ tally' = [tally EXCEPT !.compliant =
                            IF out.value.is_compliant THEN @ + 1 ELSE @]
            /\ UNCHANGED <<uuidCount, errorIds>>
            /\ IF IsRejected(out.value)
               THEN Finish(c, Return(RejectionRecord(out.value)))
               ELSE /\ pc' = [pc EXCEPT ![c] = "execute"]
                    /\ UNCHANGED ret
    /\ UNCHANGED <<genVars, mode, facadeVars, user_input, user_context, result, nRequests,
                   healthVars, mainVars>>

\* self.orchestrator.execute_task(user_input=..., user_context=...,
\* compliance_context=compliance_result).
ExecuteTask(c, out) ==
    /\ pc[c] = "execute"
    /\ trace' = [trace EXCEPT ![c] =
                    Append(@, Entry(ExecuteCall(user_input[c], user_context[c],
                                                compliance_result[c].value), out))]
    /\ IF out.kind = "raise"
       THEN /\ HandleException(c)
            /\ tally' = [tally EXCEPT !.executed = @ + 1]
            /\ UNCHANGED result
       ELSE /\ result' = [result EXCEPT ![c] = out]
            /\ pc' = [pc EXCEPT ![c] = "log"]
            /\ tally' = [tally EXCEPT !.executed = @ + 1, !.executeReturned = @ + 1]
            /\ UNCHANGED <<ret, uuidCount, errorIds>>
    /\ UNCHANGED <<genVars, mode, facadeVars, user_input, user_context, compliance_result,
                   nRequests, healthVars, mainVars>>

\* LocalResult kept in one slot of the facade instead of a local: a call reads
\* the result of another call that is between execute_task and
\* log_interaction, when there is one.
LocalResult_Shared(c) ==
    LET others == {d \in Threads \ {c} : pc[d] = "log"}
    IN IF others = {} THEN result[c] ELSE result[CHOOSE d \in others : TRUE]

\* The local variable `result` of the process_request call of thread c: every
\* call has a frame of its own.
LocalResult(c) == result[c]

\* self.compliance_manager.log_interaction(...), then `return result`.
LogInteraction(c, out) ==
    /\ pc[c] = "log"
    /\ trace' = [trace EXCEPT ![c] =
                    Append(@, Entry(LogCall(user_input[c], user_context[c],
                                            LocalResult(c).value), out))]
    /\ tally' = [tally EXCEPT !.logged = @ + 1]
    /\ IF out.kind = "raise"
       THEN HandleException(c)
       ELSE /\ Finish(c, Return(ResultReturned(LocalResult(c).value)))
            /\ UNCHANGED <<uuidCount, errorIds>>
    /\ UNCHANGED <<genVars, mode, facadeVars, user_input, user_context, compliance_result,
                   result, nRequests, healthVars, mainVars>>

\* ----------------------------------------------------------------- __init__

\* An attribute __init__ has not assigned.
Unset == [cls |-> "unset"]

\* The collaborator instances __init__ builds, named by what they were built from.
ConfigObject(path) == [cls |-> "SnowflakeConfig", config_path |-> path]
ComplianceObject(cfg) == [cls |-> "ComplianceManager", config |-> cfg]

\* OrchestratorObject built from the config alone.
OrchestratorObject_NoCompliance(cfg, cm) ==
    [cls |-> "DelekOrchestrator", config |-> cfg, compliance_manager |-> Unset]

OrchestratorObject(cfg, cm) ==
    [cls |-> "DelekOrchestrator", config |-> cfg, compliance_manager |-> cm]

\* __init__ is between its first statement and its return or raise.
InInit == initPc \in {"config", "compliance", "orchestrator"}

\* OpenDelek(path) is entered by `by`.
BeginInit(by, path) ==
    /\ owner' = by
    /\ config_path' = path
    /\ initPc' = "config"
    /\ initTrace' = <<>>
    /\ initRet' = NoOutcome
    /\ config' = Unset
    /\ compliance_manager' = Unset
    /\ orchestrator' = Unset

\* InitRaise without the `raise`: the error is logged and OpenDelek(...)
\* returns a half-built instance.
InitRaise_Swallowed(out) ==
    /\ initPc' = "done"
    /\ initRet' = Return("OpenDelek")

\* The `except Exception as e:` of __init__: log, then `raise`.
InitRaise(out) ==
    /\ initPc' = "raised"
    /\ initRet' = out

\* A caller constructs the facade.  When the module runs as a script its
\* __main__ block has called main() before anything else uses the class.
CallerConstruct(path) ==
    /\ owner = "none"
    /\ mode = "imported" \/ mainPc = "done"
    /\ BeginInit("caller", path)
    /\ UNCHANGED <<genVars, mode, requestVars, healthVars, mainVars>>

\* self.config = SnowflakeConfig(config_path)
InitConfig(out) ==
    /\ initPc = "config"
    /\ initTrace' = Append(initTrace, Entry([cls |-> "SnowflakeConfig",
                                             config_path |-> config_path], out))
    /\ IF out.kind = "raise"
       THEN InitRaise(out) /\ UNCHANGED config
       ELSE /\ config' = ConfigObject(config_path)
            /\ initPc' = "compliance"
            /\ UNCHANGED initRet
    /\ UNCHANGED <<genVars, mode, owner, config_path, compliance_manager, orchestrator,
                   requestVars, healthVars, mainVars>>

\* self.compliance_manager = ComplianceManager(self.config)
InitCompliance(out) ==
    /\ initPc = "compliance"
    /\ initTrace' = Append(initTrace, Entry([cls |-> "ComplianceManager",
                                             config |-> config], out))
    /\ IF out.kind = "raise"
       THEN InitRaise(out) /\ UNCHANGED compliance_manager
       ELSE /\ compliance_manager' = ComplianceObject(config)
            /\ initPc' = "orchestrator"
            /\ UNCHANGED initRet
    /\ UNCHANGED <<genVars, mode, owner, config_path, config, orchestrator,
                   requestVars, healthVars, mainVars>>

\* self.orchestrator = DelekOrchestrator(config=self.config,
\* compliance_manager=self.compliance_manager)
InitOrchestrator(out) ==
    /\ initPc = "orchestrator"
    /\ initTrace' = Append(initTrace, Entry([cls |-> "DelekOrchestrator",
                                             config |-> config,
                                             compliance_manager |-> compliance_manager],
                                            out))
    /\ IF out.kind = "raise"
       THEN InitRaise(out) /\ UNCHANGED orchestrator
       ELSE /\ orchestrator' = OrchestratorObject(config, compliance_manager)
            /\ initPc' = "done"
            /\ initRet' = Return("OpenDelek")
    /\ UNCHANGED <<genVars, mode, owner, config_path, config, compliance_manager,
                   requestVars, healthVars, mainVars>>

\* ------------------------------------------------------------- health_check

\* The probes in the order the dict display of health_check evaluates them,
\* each under the key it is stored at.
ProbeOrder ==
    <<"snowflake_connection", "cortex_ai", "compliance_system", "container_services">>

\* The method behind each key.
ProbeMethod(key) ==
    CASE key = "snowflake_connection" -> "config.test_connection"
      [] key = "cortex_ai" -> "orchestrator.test_cortex_ai"
      [] key = "compliance_system" -> "compliance_manager.health_check"
      [] key = "container_services" -> "orchestrator.test_containers"

\* health_check is between its entry and its return or raise.
InHealth == hcPc = "probing"

\* The record health_check builds from the four probe values and a timestamp.
HealthRecord(values, ts) ==
    [status |-> "healthy",
     components |-> [snowflake_connection |-> values[1],
                     cortex_ai |-> values[2],
                     compliance_system |-> values[3],
                     container_services |-> values[4]],
     timestamp |-> ts]

\* What health_check does once the four probes have returned `values`: the
\* timestamp is evaluated last, and the record is returned if that succeeds.
HealthCheckResult(m, values) ==
    LET ts == DatetimeNowIsoformat(m) IN
    IF ts.kind = "raise" THEN ts ELSE Return(HealthRecord(values, ts.value))

\* health_check is entered.
BeginHealth ==
    /\ hcPc' = "probing"
    /\ hcProbes' = <<>>
    /\ hcRet' = NoOutcome

\* A caller calls health_check on its facade.
HealthCheckCall ==
    /\ FacadeReady
    /\ ~InHealth
    /\ BeginHealth
    /\ UNCHANGED <<genVars, mode, facadeVars, requestVars, mainVars>>

\* The values the probes called so far returned.
ProbeValues(probes) == [i \in 1..Len(probes) |-> probes[i].out.value]

\* Probe with every probe wrapped in try/except: a raising probe is noted and
\* the remaining probes are still called; the first exception is raised at
\* the end.
Probe_ContinuesAfterRaise(out) ==
    LET key == ProbeOrder[Len(hcProbes) + 1]
        probes == Append(hcProbes, [key |-> key, method |-> ProbeMethod(key),
                                    out |-> out])
        raising == {i \in 1..Len(probes) : probes[i].out.kind = "raise"}
    IN
    /\ hcPc = "probing"
    /\ hcProbes' = probes
    /\ IF Len(probes) < Len(ProbeOrder)
       THEN UNCHANGED <<hcPc, hcRet>>
       ELSE /\ hcPc' = "done"
            /\ hcRet' = IF raising = {}
                        THEN HealthCheckResult(mode, ProbeValues(probes))
                        ELSE probes[CHOOSE i \in raising : \A j \in raising : i <= j].out
    /\ UNCHANGED <<genVars, mode, facadeVars, requestVars, mainVars>>

\* The next probe is called; after the fourth the timestamp is taken and the
\* record returned.  A probe that raises ends health_check with its exception.
Probe(out) ==
    LET key == ProbeOrder[Len(hcProbes) + 1]
        probes == Append(hcProbes, [key |-> key, method |-> ProbeMethod(key),
                                    out |-> out])
    IN
    /\ hcPc = "probing"
    /\ hcProbes' = probes
    /\ IF out.kind = "raise"
       THEN /\ hcPc' = "done"
            /\ hcRet' = out
       ELSE IF Len(probes) = Len(ProbeOrder)
       THEN /\ hcPc' = "done"
            /\ hcRet' = HealthCheckResult(mode, ProbeValues(probes))
       ELSE UNCHANGED <<hcPc, hcRet>>
    /\ UNCHANGED <<genVars, mode, facadeVars, requestVars, mainVars>>

\* --------------------------------------------------------------------- main

\* main() is between its entry and its return.
InMain == mainPc \in {"init", "health"}

\* What main returns after health_check ended with outcome h: an exception is
\* caught by `except Exception` (return 1); a record whose status is not
\* 'healthy' gives 1; otherwise 0.
MainExit(h) ==
    IF h.kind = "raise" THEN 1
    ELSE IF h.value.status # "healthy" THEN 1
    ELSE 0

\* main returns code n; its local `delek` goes away with it.
MainReturn(n) ==
    /\ mainPc' = "done"
    /\ mainRet' = Return(n)
    /\ owner' = "none"
    /\ initPc' = "idle"
    /\ config' = Unset
    /\ compliance_manager' = Unset
    /\ orchestrator' = Unset

\* main() is called: the banner, then `delek = OpenDelek()`.
MainStart ==
    /\ mainPc \in {"idle", "done"}
    /\ owner = "none"
    /\ mainPc' = "init"
    /\ mainRet' = NoOutcome
    /\ BeginInit("main", DefaultConfigPath)
    /\ UNCHANGED <<genVars, mode, requestVars, healthVars>>

\* OpenDelek() has returned or raised inside main.
MainAfterInit ==
    /\ mainPc = "init"
    /\ initPc \in {"done", "raised"}
    /\ IF initPc = "raised"
       THEN /\ MainReturn(1)
            /\ UNCHANGED <<config_path, initTrace, initRet, healthVars>>
       ELSE /\ mainPc' = "health"
            /\ BeginHealth
            /\ UNCHANGED <<mainRet, facadeVars>>
    /\ UNCHANGED <<genVars, mode, requestVars>>

\* delek.health_check() has returned or raised inside main.
MainAfterHealth ==
    /\ mainPc = "health"
    /\ hcPc = "done"
    /\ MainReturn(MainExit(hcRet))
    /\ UNCHANGED <<genVars, mode, config_path, initTrace, initRet, requestVars, healthVars>>

\* --------------------------------------------------------- generate_repo.py

\* A path is the sequence of its components; Path(".") is the empty one.
Root == <<>>

\* Path(p).parent
Parent(p) == IF p = Root THEN Root ELSE SubSeq(p, 1, Len(p) - 1)

\* p and the paths above it, Root left out.
Prefixes(p) == {SubSeq(p, 1, k) : k \in 1..Len(p)}

\* The list `directories` of create_directory_structure, in its order.
directories ==
    << <<"config">>, <<"core">>, <<"agents">>, <<"tools">>,
       <<"containers", "browser_service">>,
       <<"containers", "document_service">>,
       <<"streamlit_app", "components">>,
       <<"streamlit_app", "styles">>,
       <<"sql", "schema">>,
       <<"sql", "procedures">>,
       <<"deployment", "snowflake_native_app">>,
       <<"deployment", "terraform">>,
       <<"tests", "unit">>,
       <<"tests", "integration">>,
       <<"tests", "security">>,
       <<"tests", "e2e">>,
       <<"tests", "health">>,
       <<"docs">>,
       <<".github", "workflows">> >>

\* The create_file calls of generate_all_files, in their order.  An empty
\* content is the empty string of the source; every other content is a long
\* literal, stood for by its first line.
GeneratedFiles ==
    << [filepath |-> <<"main.py">>,
        content |-> "# OpenDelek - Corporate AI Assistant Platform"],
       [filepath |-> <<"requirements.txt">>,
        content |-> "# Core Snowflake dependencies"],
       [filepath |-> <<"config", "__init__.py">>, content |-> ""],
       [filepath |-> <<"config", "snowflake_config.toml">>,
        content |-> "[snowflake]"],
       [filepath |-> <<"core", "__init__.py">>, content |-> ""],
       [filepath |-> <<"agents", "__init__.py">>, content |-> ""],
       [filepath |-> <<"tools", "__init__.py">>, content |-> ""],
       [filepath |-> <<"containers", "browser_service", "Dockerfile">>,
        content |-> "FROM python:3.11-slim"],
       [filepath |-> <<"containers", "browser_service", "requirements.txt">>,
        content |-> "fastapi==0.104.1"],
       [filepath |-> <<"snowflake_setup.sql">>,
        content |-> "-- OpenDelek Snowflake Setup Script"],
       [filepath |-> <<".github", "workflows", "ci-cd.yml">>,
        content |-> "name: OpenDelek CI/CD Pipeline"],
       [filepath |-> <<"README.md">>,
        content |-> "# OpenDelek - Corporate AI Assistant Platform"],
       [filepath |-> <<"tests", "__init__.py">>, content |-> ""],
       [filepath |-> <<"tests", "conftest.py">>, content |-> "import pytest"],
       [filepath |-> <<"tests", "unit", "__init__.py">>, content |-> ""],
       [filepath |-> <<"tests", "integration", "__init__.py">>, content |-> ""],
       [filepath |-> <<"tests", "security", "__init__.py">>, content |-> ""],
       [filepath |-> <<"tests", "unit", "test_main.py">>,
        content |-> "import pytest"],
       [filepath |-> <<"LICENSE">>, content |-> "MIT License"],
       [filepath |-> <<".gitignore">>, content |-> "# Python"] >>

\* Every path the generator touches.
AllPaths ==
    UNION ({Prefixes(directories[i]) : i \in 1..Len(directories)}
           \cup {Prefixes(GeneratedFiles[i].filepath) : i \in 1..Len(GeneratedFiles)})

\* What the working directory holds at a path.
Absent == [kind |-> "absent", content |-> ""]
Dir == [kind |-> "dir", content |-> ""]
File(content) == [kind |-> "file", content |-> content]

\* The empty working directory.
EmptyTree == [p \in AllPaths |-> Absent]

\* What a file holds that was there before the generator ran, and what it
\* holds after its user has edited it.
StaleContent == "stale"
EditedContent == "edited"

\* The working directories a first run starts in: empty, or with some of the
\* generator's top-level names already taken by a directory or by a file.
InitialTrees ==
    {[EmptyTree EXCEPT ![<<"main.py">>] = m,
                       ![<<"config">>] = c,
                       ![<<"containers">>] = k,
                       ![<<"tests">>] = t,
                       ![<<"README.md">>] = r] :
        m \in {Absent, File(StaleContent), Dir},
        c \in {Absent, Dir, File(StaleContent)},
        k \in {Absent, File(StaleContent)},
        t \in {Absent, Dir},
        r \in {Absent, File(StaleContent)}}

\* The generated files the user is told to review and update.
UserEdited == {<<"config", "snowflake_config.toml">>, <<"README.md">>}

\* Path(p).mkdir(parents=True, exist_ok=True) in the working directory tree:
\* the tree it leaves and its outcome.  A directory already there is left
\* alone, a file there is FileExistsError, a file where a parent should be
\* is NotADirectoryError, and missing parents are made first.
RECURSIVE mkdir(_, _)
mkdir(tree, p) ==
    IF p = Root \/ tree[p].kind = "dir"
    THEN [fs |-> tree, out |-> Return("None")]
    ELSE IF tree[p].kind = "file"
    THEN [fs |-> tree, out |-> Raise("FileExistsError")]
    ELSE IF Parent(p) # Root /\ tree[Parent(p)].kind = "file"
    THEN [fs |-> tree, out |-> Raise("NotADirectoryError")]
    ELSE LET up == mkdir(tree, Parent(p))
         IN IF up.out.kind = "raise"
            THEN up
            ELSE [fs |-> [up.fs EXCEPT ![p] = Dir], out |-> Return("None")]

\* create_file without the mkdir of the parent: opening a file whose parent
\* directory is missing is FileNotFoundError.
create_file_NoParents(tree, filepath, content) ==
    IF \E d \in Prefixes(Parent(filepath)) : tree[d].kind = "file"
    THEN [fs |-> tree, out |-> Raise("NotADirectoryError")]
    ELSE IF \E d \in Prefixes(Parent(filepath)) : tree[d].kind = "absent"
    THEN [fs |-> tree, out |-> Raise("FileNotFoundError")]
    ELSE IF tree[filepath].kind = "dir"
    THEN [fs |-> tree, out |-> Raise("IsADirectoryError")]
    ELSE [fs |-> [tree EXCEPT ![filepath] = File(content)],
          out |-> Return("None")]

\* create_file opening the file in append mode.
create_file_Append(tree, filepath, content) ==
    LET up == mkdir(tree, Parent(filepath))
    IN IF up.out.kind = "raise"
       THEN up
       ELSE IF up.fs[filepath].kind = "dir"
       THEN [fs |-> up.fs, out |-> Raise("IsADirectoryError")]
       ELSE [fs |-> [up.fs EXCEPT ![filepath] = File(@.content \o content)],
             out |-> Return("None")]

\* create_file(filepath, content): the parent directory is made, the file is
\* opened with mode 'w', which truncates it or creates it, and content is
\* written.  Opening a directory is IsADirectoryError.
create_file(tree, filepath, content) ==
    LET up == mkdir(tree, Parent(filepath))
    IN IF up.out.kind = "raise"
       THEN up
       ELSE IF up.fs[filepath].kind = "dir"
       THEN [fs |-> up.fs, out |-> Raise("IsADirectoryError")]
       ELSE [fs |-> [up.fs EXCEPT ![filepath] = File(content)],
             out |-> Return("None")]

\* Positions in a run of generate_repo.py.
GenIdle == [phase |-> "idle", i |-> 0]
GenAt(phase, i) == [phase |-> phase, i |-> i]

\* A run is in progress.
InGenerator == genPc.phase \in {"dirs", "files"}

\* A run ends with outcome out, leaving the working directory tree.
GenEnd(tree, out) ==
    /\ fs' = tree
    /\ genPc' = GenAt(IF out.kind = "raise" THEN "raised" ELSE "done", 0)
    /\ genRuns' = Append(genRuns, [before |-> genBefore, fs |-> tree, out |-> out])
    /\ UNCHANGED <<genBefore, lastCreate>>

\* `python generate_repo.py`: the __main__ block starts.
GeneratorStart ==
    /\ ~InGenerator
    /\ Len(genRuns) < MaxRuns
    /\ genPc' = GenAt("dirs", 1)
    /\ genBefore' = fs
    /\ UNCHANGED <<fs, genRuns, lastCreate, mainPyVars>>

\* One iteration of the loop of create_directory_structure; an exception
\* ends the process, and after the last directory generate_all_files starts.
CreateDirectoryStep ==
    /\ genPc.phase = "dirs"
    /\ LET r == mkdir(fs, directories[genPc.i])
       IN IF r.out.kind = "raise"
          THEN GenEnd(r.fs, r.out)
          ELSE /\ fs' = r.fs
               /\ genPc' = IF genPc.i < Len(directories)
                           THEN GenAt("dirs", genPc.i + 1)
                           ELSE GenAt("files", 1)
               /\ UNCHANGED <<genBefore, genRuns, lastCreate>>
    /\ UNCHANGED mainPyVars

\* One create_file call of generate_all_files; an exception ends the
\* process, and after the last file the run is complete.
CreateFileStep ==
    /\ genPc.phase = "files"
    /\ LET f == GeneratedFiles[genPc.i]
           r == create_file(fs, f.filepath, f.content)
       IN IF r.out.kind = "raise" \/ genPc.i = Len(GeneratedFiles)
          THEN GenEnd(r.fs, r.out)
          ELSE /\ fs' = r.fs
               /\ genPc' = GenAt("files", genPc.i + 1)
               /\ UNCHANGED <<genBefore, genRuns, lastCreate>>
    /\ UNCHANGED mainPyVars

\* The create_file calls made before any run, by a script that imports
\* generate_repo: a top-level file, a file one directory down and a file two
\* directories down, each written with a content that is not the generator's.
CalledFiles ==
    {[filepath |-> <<"main.py">>, content |-> EditedContent],
     [filepath |-> <<"config", "snowflake_config.toml">>, content |-> EditedContent],
     [filepath |-> <<"tests", "unit", "test_main.py">>, content |-> EditedContent]}

\* No create_file call has been made on its own.
NoCreate ==
    [before |-> <<>>, filepath |-> Root, content |-> "",
     fs |-> <<>>, out |-> NoOutcome]

\* create_file(f.filepath, f.content) called on its own, before any run, in
\* the working directory as it is: nothing has made the parent directories
\* for it.
CreateFileCall(f) ==
    /\ genPc = GenIdle
    /\ LET r == create_file(fs, f.filepath, f.content)
       IN /\ fs' = r.fs
          /\ lastCreate' = [before |-> fs, filepath |-> f.filepath,
                            content |-> f.content, fs |-> r.fs, out |-> r.out]
    /\ UNCHANGED <<genPc, genBefore, genRuns, mainPyVars>>

\* Between two runs the user edits a generated file, as the closing message
\* of the script asks.
UserEdit(p) ==
    /\ genPc.phase = "done"
    /\ fs[p].kind = "file"
    /\ fs[p].content # EditedContent
    /\ fs' = [fs EXCEPT ![p] = File(EditedContent)]
    /\ UNCHANGED <<genPc, genBefore, genRuns, lastCreate, mainPyVars>>

\* ------------------------------------------------------------ specification

\* Nothing is in progress: a single-threaded host starts the next operation
\* only when the previous one has returned.
Quiet ==
    /\ \A c \in Threads : ~InRequest(c)
    /\ ~InInit
    /\ ~InHealth
    /\ ~InMain

\* main.py is loaded and nothing of it has run.
InitMain ==
    /\ mode \in {"script", "imported"}
    /\ owner = "none"
    /\ config_path = DefaultConfigPath
    /\ initPc = "idle"
    /\ initTrace = <<>>
    /\ initRet = NoOutcome
    /\ config = Unset
    /\ compliance_manager = Unset
    /\ orchestrator = Unset
    /\ pc = [c \in Threads |-> "idle"]
    /\ user_input = [c \in Threads |-> ""]
    /\ user_context = [c \in Threads |-> [user_id |-> "", role |-> ""]]
    /\ compliance_result = [c \in Threads |-> NoOutcome]
    /\ result = [c \in Threads |-> NoOutcome]
    /\ trace = [c \in Threads |-> <<>>]
    /\ ret = [c \in Threads |-> NoOutcome]
    /\ nRequests = 0
    /\ uuidCount = 0
    /\ errorIds = <<>>
    /\ tally = [compliant |-> 0, executed |-> 0, executeReturned |-> 0, logged |-> 0]
    /\ hcPc = "idle"
    /\ hcProbes = <<>>
    /\ hcRet = NoOutcome
    /\ mainPc = "idle"
    /\ mainRet = NoOutcome

\* generate_repo.py has not run.
NotGenerated ==
    /\ fs = EmptyTree
    /\ genPc = GenIdle
    /\ genBefore = EmptyTree
    /\ genRuns = <<>>
    /\ lastCreate = NoCreate

Init == InitMain /\ NotGenerated

Next ==
    \/ Quiet /\ MainStart
    \/ MainAfterInit
    \/ MainAfterHealth
    \/ \E path \in ConfigPaths : Quiet /\ CallerConstruct(path)
    \/ \E out \in ConstructorOutcomes : InitConfig(out)
    \/ \E out \in ConstructorOutcomes : InitCompliance(out)
    \/ \E out \in ConstructorOutcomes : InitOrchestrator(out)
    \/ Quiet /\ HealthCheckCall
    \/ \E out \in ProbeOutcomes : Probe(out)
    \/ \E c \in SeqThreads, ui \in Inputs, uc \in Contexts : Quiet /\ Call(c, ui, uc)
    \/ \E c \in SeqThreads, out \in ValidateOutcomes : ValidateRequest(c, out)
    \/ \E c \in SeqThreads, out \in ExecuteOutcomes : ExecuteTask(c, out)
    \/ \E c \in SeqThreads, out \in LogOutcomes : LogInteraction(c, out)

Spec == Init /\ [][Next]_vars

\* The outcomes of S with RuntimeError the only exception raised.
OneException(S) == {o \in S : o.kind = "raise" => o.exc = "RuntimeError"}

\* The same program used by two callers in turn: the host is still
\* single-threaded, so a call starts only when nothing is in progress, but
\* each caller keeps what its last call did and returned.  The facade is
\* built from the default configuration, collaborators raise one kind of
\* exception, and a probe either returns True or raises.
NextCallers ==
    \/ Quiet /\ MainStart
    \/ MainAfterInit
    \/ MainAfterHealth
    \/ Quiet /\ CallerConstruct(DefaultConfigPath)
    \/ \E out \in OneException(ConstructorOutcomes) : InitConfig(out)
    \/ \E out \in OneException(ConstructorOutcomes) : InitCompliance(out)
    \/ \E out \in OneException(ConstructorOutcomes) : InitOrchestrator(out)
    \/ Quiet /\ HealthCheckCall
    \/ \E out \in {Return(TRUE), Raise("RuntimeError")} : Probe(out)
    \/ \E c \in Threads, ui \in Inputs, uc \in Contexts : Quiet /\ Call(c, ui, uc)
    \/ \E c \in Threads, out \in OneException(ValidateOutcomes) : ValidateRequest(c, out)
    \/ \E c \in Threads, out \in OneException(ExecuteOutcomes) : ExecuteTask(c, out)
    \/ \E c \in Threads, out \in OneException(LogOutcomes) : LogInteraction(c, out)

SpecCallers == Init /\ [][NextCallers]_vars

\* The same program with a host that dispatches concurrent callers: a caller
\* enters process_request while another call is between two collaborator
\* calls, and the collaborator calls of the two interleave in any order.
\* Construction and main() are as before; the callers make no health check.
NextConcurrent ==
    \/ Quiet /\ MainStart
    \/ MainAfterInit
    \/ MainAfterHealth
    \/ Quiet /\ CallerConstruct(DefaultConfigPath)
    \/ \E out \in OneException(ConstructorOutcomes) : InitConfig(out)
    \/ \E out \in OneException(ConstructorOutcomes) : InitCompliance(out)
    \/ \E out \in OneException(ConstructorOutcomes) : InitOrchestrator(out)
    \/ \E out \in {Return(TRUE), Raise("RuntimeError")} : Probe(out)
    \/ \E c \in Threads, ui \in Inputs, uc \in Contexts : Call(c, ui, uc)
    \/ \E c \in Threads, out \in OneException(ValidateOutcomes) : ValidateRequest(c, out)
    \/ \E c \in Threads, out \in OneException(ExecuteOutcomes) : ExecuteTask(c, out)
    \/ \E c \in Threads, out \in OneException(LogOutcomes) : LogInteraction(c, out)

SpecConcurrent == Init /\ [][NextConcurrent]_vars

\* generate_repo.py run up to MaxRuns times in one working directory, which
\* its user may edit between two runs, and create_file called on its own
\* before the first; main.py is left alone.
InitGenerator ==
    /\ InitMain
    /\ mode = "script"
    /\ fs \in InitialTrees
    /\ genPc = GenIdle
    /\ genBefore = fs
    /\ genRuns = <<>>
    /\ lastCreate = NoCreate

NextGenerator ==
    \/ GeneratorStart
    \/ CreateDirectoryStep
    \/ CreateFileStep
    \/ \E f \in CalledFiles : CreateFileCall(f)
    \/ \E p \in UserEdited : UserEdit(p)

SpecGenerator == InitGenerator /\ [][NextGenerator]_vars

\* ------------------------------------------------- reading a thread's trace

\* The positions in thread c's trace of its calls to fn.
CallsTo(c, fn) == {i \in 1..Len(trace[c]) : trace[c][i].call.fn = fn}

\* How often the current call of thread c invoked fn.
NumCalls(c, fn) == Cardinality(CallsTo(c, fn))

\* fn was invoked by the current call of thread c and raised.
Raised(c, fn) == \E i \in CallsTo(c, fn) : trace[c][i].out.kind = "raise"

\* fn was invoked by the current call of thread c and returned.
Returned(c, fn) == \E i \in CallsTo(c, fn) : trace[c][i].out.kind = "return"

\* validate_request returned a result with is_compliant false / true.
NonCompliantCall(c) ==
    \E i \in CallsTo(c, "validate_request") :
        /\ trace[c][i].out.kind = "return"
        /\ ~trace[c][i].out.value.is_compliant

CompliantCall(c) ==
    \E i \in CallsTo(c, "validate_request") :
        /\ trace[c][i].out.kind = "return"
        /\ trace[c][i].out.value.is_compliant

\* The current call of thread c has ended by returning a record.
ReturnedRecord(c) == pc[c] = "done" /\ ret[c].kind = "return"

\* The current call of thread c has ended by returning a record of status s.
ReturnedStatus(c, s) ==
    /\ ReturnedRecord(c)
    /\ "status" \in DOMAIN ret[c].value
    /\ ret[c].value.status = s

\* ------------------------------------------------------------------ claims

\* C1: whenever validate_request has returned a result with is_compliant
\* false, the call has ended, the record returned has status "rejected", and
\* execute_task was invoked zero times during that call.
C1_NonCompliantIsRejectedWithoutExecute ==
    \A c \in Threads :
        NonCompliantCall(c) =>
            /\ ReturnedStatus(c, "rejected")
            /\ NumCalls(c, "execute_task") = 0

\* C1 witness: a call whose validation was non-compliant has returned the
\* rejection record.
C1_Witness ==
    \E c \in Threads :
        /\ NonCompliantCall(c)
        /\ ReturnedStatus(c, "rejected")
        /\ ret[c].value.compliance_status = "NON_COMPLIANT"

\* The execute_task calls of thread c were made with the arguments of the call.
ExecuteArgsAreCallArgs(c) ==
    \A i \in CallsTo(c, "execute_task") :
        /\ trace[c][i].call.user_input = user_input[c]
        /\ trace[c][i].call.user_context = user_context[c]

\* log_interaction was invoked exactly once by thread c, after execute_task,
\* with compliance_status "COMPLIANT".
LoggedOnceCompliantAfterExecute(c) ==
    /\ NumCalls(c, "log_interaction") = 1
    /\ \A i \in CallsTo(c, "log_interaction") :
        /\ trace[c][i].call.compliance_status = "COMPLIANT"
        /\ \A j \in CallsTo(c, "execute_task") : j < i

\* C2: every finished call whose validation was compliant invoked
\* execute_task exactly once with the call's user_input and user_context and,
\* after it, log_interaction exactly once with compliance_status "COMPLIANT".
C2_CompliantExecutesOnceThenLogsOnce ==
    \A c \in Threads :
        (pc[c] = "done" /\ CompliantCall(c)) =>
            /\ NumCalls(c, "execute_task") = 1
            /\ ExecuteArgsAreCallArgs(c)
            /\ LoggedOnceCompliantAfterExecute(c)

\* A collaborator call of the current call of thread c raised.
SomeCallRaised(c) ==
    \E i \in 1..Len(trace[c]) : trace[c][i].out.kind = "raise"

\* C3: every finished call in which validate_request, execute_task or
\* log_interaction raised returned the record {status: "error", message:
\* "An error occurred processing your request", error_id: <identifier>},
\* however the module was loaded.
C3_RaisedBecomesErrorRecord ==
    \A c \in Threads :
        (pc[c] = "done" /\ SomeCallRaised(c)) =>
            /\ ret[c].kind = "return"
            /\ DOMAIN ret[c].value = {"status", "message", "error_id"}
            /\ ret[c].value.status = "error"
            /\ ret[c].value.message = "An error occurred processing your request"

\* C4: every finished call, whatever its collaborators did, returned a record
\* that has a status field; no exception left process_request.
C4_AlwaysReturnsRecordWithStatus ==
    \A c \in Threads :
        pc[c] = "done" =>
            /\ ret[c].kind # "raise"
            /\ ret[c].kind = "return"
            /\ "status" \in DOMAIN ret[c].value

\* C5: whenever validate_request has returned a result with is_compliant
\* false, log_interaction was not invoked by that call, so no audit entry
\* (with "COMPLIANT" or any other status) exists for it.
C5_RejectedIsNeverLogged ==
    \A c \in Threads :
        NonCompliantCall(c) => NumCalls(c, "log_interaction") = 0

\* C5 witness: a rejected call has ended having made validate_request its
\* only collaborator call.
C5_Witness ==
    \E c \in Threads :
        /\ NonCompliantCall(c)
        /\ pc[c] = "done"
        /\ Len(trace[c]) = 1
        /\ tally.logged = 0

\* C6: every finished process_request call, whatever its outcome, made a
\* log_interaction call.
C6_EveryCallIsLogged ==
    \A c \in Threads :
        pc[c] = "done" => NumCalls(c, "log_interaction") >= 1

\* All four probes of the current health_check were called and returned.
AllProbesReturned ==
    /\ Len(hcProbes) = Len(ProbeOrder)
    /\ \A i \in 1..Len(hcProbes) : hcProbes[i].out.kind = "return"

\* All four probes returned True.
AllProbesTrue ==
    /\ AllProbesReturned
    /\ \A i \in 1..Len(hcProbes) : hcProbes[i].out.value

\* C7: a health_check whose four probes returned has returned a record whose
\* status is "healthy" when and only when all four probes reported success.
C7_HealthyIffAllProbesSucceed ==
    (hcPc = "done" /\ AllProbesReturned) =>
        /\ hcRet.kind = "return"
        /\ (hcRet.value.status = "healthy") <=> AllProbesTrue

\* C8: on a facade built by a caller that imported the module, a health_check
\* whose four probes returned True has completed without raising and returned
\* a record with status "healthy" in which every component is true.
C8_ImportedHealthCheckReturnsHealthy ==
    (mode = "imported" /\ owner = "caller" /\ hcPc = "done" /\ AllProbesTrue) =>
        /\ hcRet.kind = "return"
        /\ hcRet.value.status = "healthy"
        /\ \A k \in DOMAIN hcRet.value.components : hcRet.value.components[k]

\* main() has returned and nothing was started after it, so initRet and the
\* health_check variables are those of its own facade.
MainJustReturned == mainPc = "done" /\ owner = "none" /\ mainRet.kind = "return"

\* C9: main() returns 1 when constructing the facade raised, 0 when the
\* health record's status is healthy and 1 otherwise; in particular it
\* returns 0 when construction succeeded and all four probes returned True.
C9_MainExitCode ==
    MainJustReturned =>
        /\ initRet.kind = "raise" => mainRet.value = 1
        /\ (initRet.kind = "return" /\ AllProbesTrue) => mainRet.value = 0
        /\ (initRet.kind = "return" /\ hcRet.kind = "return") =>
               (mainRet.value = 0 <=> hcRet.value.status = "healthy")
        /\ mainRet.value \in {0, 1}

\* C10: every finished call whose execute_task raised returned status
\* "error" with a non-empty error_id, and the error_ids returned by distinct
\* failing calls differ.
C10_FailingCallsGetDistinctErrorIds ==
    /\ \A c \in Threads :
        (pc[c] = "done" /\ Raised(c, "execute_task")) =>
            /\ ReturnedStatus(c, "error")
            /\ ret[c].value.error_id # ""
    /\ \A i, j \in 1..Len(errorIds) : i # j => errorIds[i] # errorIds[j]

\* The value the call of thread c to fn returned (fn was called once and returned).
ValueReturned(c, fn) ==
    LET i == CHOOSE i \in CallsTo(c, fn) : trace[c][i].out.kind = "return"
    IN trace[c][i].out.value

\* C11: a finished call whose validation was compliant and whose execute_task
\* and log_interaction both returned has returned exactly the record
\* execute_task produced: no field added, removed or changed.
C11_CompliantReturnsTaskResultUnmodified ==
    \A c \in Threads :
        (/\ pc[c] = "done"
         /\ CompliantCall(c)
         /\ Returned(c, "execute_task")
         /\ Returned(c, "log_interaction")) =>
            /\ ret[c].kind = "return"
            /\ ret[c].value = ValueReturned(c, "execute_task")
            /\ DOMAIN ret[c].value = DOMAIN ValueReturned(c, "execute_task")

\* C11 witness: a call has gone through all three collaborators and returned
\* the orchestrator's two-field record {status: "completed", result: ...}.
C11_Witness ==
    \E c \in Threads :
        /\ pc[c] = "done"
        /\ Returned(c, "log_interaction")
        /\ ret[c] = Return([status |-> "completed", result |-> "3 invoices found"])

\* C12: whenever validate_request has returned is_compliant false with reason
\* r, the call has returned exactly the three-field record {status:
\* "rejected", message: "Request violates corporate policy: " + r,
\* compliance_status: "NON_COMPLIANT"}.
C12_RejectionRecordIsExact ==
    \A c \in Threads :
        NonCompliantCall(c) =>
            /\ pc[c] = "done"
            /\ ret[c].kind = "return"
            /\ DOMAIN ret[c].value = {"status", "message", "compliance_status"}
            /\ ret[c].value.status = "rejected"
            /\ ret[c].value.message =
                   "Request violates corporate policy: "
                       \o ValueReturned(c, "validate_request").reason
            /\ ret[c].value.compliance_status = "NON_COMPLIANT"

\* C12 witness: the scenario of the specification, reason "contains
\* restricted keyword", has produced its expected record.
C12_Witness ==
    \E c \in Threads :
        /\ NonCompliantCall(c)
        /\ ret[c] = Return([status |-> "rejected",
                            message |-> "Request violates corporate policy: contains restricted keyword",
                            compliance_status |-> "NON_COMPLIANT"])

\* The keys of the probes the current health_check has called, in call order.
ProbesCalled == [i \in 1..Len(hcProbes) |-> hcProbes[i].key]

\* The first n keys of the order snowflake_connection, cortex_ai,
\* compliance_system, container_services.
FirstProbes(n) ==
    SubSeq(<<"snowflake_connection", "cortex_ai", "compliance_system",
             "container_services">>, 1, n)

\* C13: whenever a probe has raised, health_check has ended with that very
\* exception (no record is returned), and the probes called are exactly those
\* up to the raising one in the order snowflake_connection, cortex_ai,
\* compliance_system, container_services: none after it was invoked.
C13_RaisingProbePropagates ==
    \A i \in 1..Len(hcProbes) :
        hcProbes[i].out.kind = "raise" =>
            /\ hcPc = "done"
            /\ hcRet = hcProbes[i].out
            /\ Len(hcProbes) = i
            /\ ProbesCalled = FirstProbes(i)

\* C13 witness: the second probe, cortex_ai, raised and health_check ended
\* with two probes called.
C13_Witness ==
    /\ hcPc = "done"
    /\ Len(hcProbes) = 2
    /\ hcProbes[1].out.kind = "return"
    /\ hcProbes[2].key = "cortex_ai"
    /\ hcProbes[2].out.kind = "raise"
    /\ hcRet.kind = "raise"

\* No probe of the current health_check raised.
NoProbeRaised == \A i \in 1..Len(hcProbes) : hcProbes[i].out.kind # "raise"

\* C14: a health_check in which no probe raised has called each of the four
\* probes exactly once and returned a record whose components mapping has
\* exactly the keys snowflake_connection, cortex_ai, compliance_system and
\* container_services, each holding the value its probe returned, and which
\* carries a timestamp.
C14_HealthRecordHoldsProbeValues ==
    (hcPc = "done" /\ NoProbeRaised) =>
        /\ Len(hcProbes) = 4
        /\ \A k \in {"config.test_connection", "orchestrator.test_cortex_ai",
                     "compliance_manager.health_check", "orchestrator.test_containers"} :
               Cardinality({i \in 1..Len(hcProbes) : hcProbes[i].method = k}) = 1
        /\ hcRet.kind = "return"
        /\ "timestamp" \in DOMAIN hcRet.value
        /\ DOMAIN hcRet.value.components =
               {"snowflake_connection", "cortex_ai", "compliance_system",
                "container_services"}
        /\ \A i \in 1..Len(hcProbes) :
               hcRet.value.components[hcProbes[i].key] = hcProbes[i].out.value

\* The classes of the constructors __init__ has called, in call order.
ConstructorsCalled == [i \in 1..Len(initTrace) |-> initTrace[i].call.cls]

\* The first n classes of the order config, compliance, orchestrator.
FirstConstructors(n) ==
    SubSeq(<<"SnowflakeConfig", "ComplianceManager", "DelekOrchestrator">>, 1, n)

\* C15: whenever a collaborator constructor has raised, OpenDelek(...) has
\* ended by raising that same exception, and the constructors called are
\* exactly those up to the raising one in the order config, compliance,
\* orchestrator: none after it was called.
C15_ConstructorFailurePropagates ==
    \A i \in 1..Len(initTrace) :
        initTrace[i].out.kind = "raise" =>
            /\ ~InInit
            /\ initRet = initTrace[i].out
            /\ Len(initTrace) = i
            /\ ConstructorsCalled = FirstConstructors(i)

\* C15 witness: a caller's OpenDelek(...) raised ValueError out of the
\* ComplianceManager constructor, after SnowflakeConfig had returned.
C15_Witness ==
    /\ owner = "caller"
    /\ initPc = "raised"
    /\ Len(initTrace) = 2
    /\ initTrace[2].call.cls = "ComplianceManager"
    /\ initRet = Raise("ValueError")

\* C16: when OpenDelek(...) is no longer running and no constructor raised,
\* it has returned the instance after calling each constructor exactly once
\* in the order SnowflakeConfig(config_path), ComplianceManager(that config),
\* DelekOrchestrator(that config, that compliance manager); while the
\* instance is held, its three attributes are exactly those three objects.
C16_ConstructionBuildsThreeCollaboratorsInOrder ==
    (/\ Len(initTrace) > 0
     /\ ~InInit
     /\ \A i \in 1..Len(initTrace) : initTrace[i].out.kind = "return") =>
        /\ initRet = Return("OpenDelek")
        /\ ConstructorsCalled = FirstConstructors(3)
        /\ initTrace[1].call.config_path = config_path
        /\ initTrace[2].call.config.cls = "SnowflakeConfig"
        /\ initTrace[2].call.config.config_path = config_path
        /\ initTrace[3].call.config = initTrace[2].call.config
        /\ initTrace[3].call.compliance_manager.cls = "ComplianceManager"
        /\ initTrace[3].call.compliance_manager.config = initTrace[2].call.config
        /\ initPc = "done" =>
            /\ config = initTrace[2].call.config
            /\ compliance_manager = initTrace[3].call.compliance_manager
            /\ orchestrator.cls = "DelekOrchestrator"
            /\ orchestrator.config = config
            /\ orchestrator.compliance_manager = compliance_manager

\* C16 witness: a caller holds an instance built from "other.toml" whose
\* orchestrator was built from the instance's config and compliance manager.
C16_Witness ==
    /\ owner = "caller"
    /\ initPc = "done"
    /\ Len(initTrace) = 3
    /\ config = [cls |-> "SnowflakeConfig", config_path |-> "other.toml"]
    /\ orchestrator.compliance_manager = compliance_manager
    /\ compliance_manager.config = config

\* C17: while a constructed facade exists, no step (of process_request, of
\* health_check, or any other) changes its attributes config,
\* compliance_manager and orchestrator.
C17_CollaboratorsNeverReassigned ==
    [][(initPc = "done" /\ initPc' = "done") =>
           /\ config' = config
           /\ compliance_manager' = compliance_manager
           /\ orchestrator' = orchestrator]_vars

\* C17 witness: on one facade a second process_request has ended in the
\* exception handler and a health_check has ended by raising, and the three
\* attributes are still the objects built from the default configuration.
C17_Witness ==
    /\ owner = "caller"
    /\ initPc = "done"
    /\ nRequests = 2
    /\ pc[1] = "done"
    /\ SomeCallRaised(1)
    /\ hcPc = "done"
    /\ hcRet.kind = "raise"
    /\ config = [cls |-> "SnowflakeConfig", config_path |-> DefaultConfigPath]
    /\ compliance_manager = [cls |-> "ComplianceManager", config |-> config]
    /\ orchestrator = [cls |-> "DelekOrchestrator", config |-> config,
                       compliance_manager |-> compliance_manager]

\* C19: in every call, validate_request is the first collaborator call and is
\* made exactly once; execute_task is called only after validate_request has
\* returned, log_interaction only after execute_task has returned, and the
\* call has an outcome only once it has ended (no collaborator call follows
\* the return).
C19_CollaboratorCallOrder ==
    \A c \in Threads :
        /\ pc[c] \in {"idle", "validate"} => trace[c] = <<>>
        /\ pc[c] \in {"execute", "log", "done"} =>
            /\ NumCalls(c, "validate_request") = 1
            /\ trace[c][1].call.fn = "validate_request"
        /\ \A i \in CallsTo(c, "execute_task") :
            \E j \in CallsTo(c, "validate_request") :
                j < i /\ trace[c][j].out.kind = "return"
        /\ \A i \in CallsTo(c, "log_interaction") :
            \E j \in CallsTo(c, "execute_task") :
                j < i /\ trace[c][j].out.kind = "return"
        /\ ret[c].kind # "none" <=> pc[c] = "done"

\* C19 witness: a finished call made validate_request, execute_task and
\* log_interaction, in this order, and returned.
C19_Witness ==
    \E c \in Threads :
        /\ pc[c] = "done"
        /\ Len(trace[c]) = 3
        /\ trace[c][1].call.fn = "validate_request"
        /\ trace[c][2].call.fn = "execute_task"
        /\ trace[c][3].call.fn = "log_interaction"
        /\ ret[c].kind = "return"

\* C20: every execute_task call received as compliance_context the
\* ComplianceResult validate_request returned to this call, and every
\* log_interaction call received this call's user_context, request equal to
\* this call's user_input, and response equal to the TaskResult execute_task
\* returned to this call.
C20_CollaboratorArguments ==
    \A c \in Threads :
        /\ \A i \in CallsTo(c, "execute_task") :
            /\ Returned(c, "validate_request")
            /\ trace[c][i].call.compliance_context =
                   ValueReturned(c, "validate_request")
        /\ \A i \in CallsTo(c, "log_interaction") :
            /\ Returned(c, "execute_task")
            /\ trace[c][i].call.user_context = user_context[c]
            /\ trace[c][i].call.request = user_input[c]
            /\ trace[c][i].call.response = ValueReturned(c, "execute_task")

\* C20 witness: a call validated with the reason "approved for role" handed
\* that result to execute_task and logged the failed TaskResult it got back.
C20_Witness ==
    \E c \in Threads :
        /\ NumCalls(c, "log_interaction") = 1
        /\ trace[c][2].call.compliance_context =
               [is_compliant |-> TRUE, reason |-> "approved for role"]
        /\ trace[c][3].call.response =
               [status |-> "failed", message |-> "agent unavailable"]
        /\ trace[c][3].call.request = "export payroll"

\* What the collaborators did to the current call of thread c, and what the
\* call asked of them, both in call order.
OutcomesSeen(c) == [i \in 1..Len(trace[c]) |-> trace[c][i].out]
CallsMade(c) == [i \in 1..Len(trace[c]) |-> trace[c][i].call]

\* An outcome of process_request with the value of a generated error_id
\* left out.
WithoutErrorId(o) ==
    IF o.kind = "return" /\ "error_id" \in DOMAIN o.value
    THEN [kind |-> "return",
          value |-> [k \in DOMAIN o.value \ {"error_id"} |-> o.value[k]]]
    ELSE o

\* C18: two callers use the same facade one after the other, so the later
\* call has the earlier one (and any health_check in between) in its past.
\* Whenever their calls had the same arguments and the collaborators treated
\* both alike, both made the same collaborator calls and, once ended, have
\* the same outcome apart from the value of error_id: nothing of the past
\* shows in a call.
C18_CallsDependOnlyOnArgumentsAndOutcomes ==
    \A a, b \in Threads :
        (/\ a # b
         /\ pc[a] = "done"
         /\ pc[b] # "idle"
         /\ user_input[a] = user_input[b]
         /\ user_context[a] = user_context[b]) =>
            /\ \A k \in 1..Len(trace[b]) :
                (/\ k <= Len(trace[a]) + 1
                 /\ \A j \in 1..(k - 1) : trace[a][j].out = trace[b][j].out) =>
                    /\ k <= Len(trace[a])
                    /\ trace[b][k].call = trace[a][k].call
            /\ (pc[b] = "done" /\ OutcomesSeen(a) = OutcomesSeen(b)) =>
                    WithoutErrorId(ret[a]) = WithoutErrorId(ret[b])

\* C18 witness: both callers passed the same arguments, both calls failed in
\* execute_task and returned the error record, with different error_ids and
\* otherwise equal.
C18_Witness ==
    /\ pc[1] = "done"
    /\ pc[2] = "done"
    /\ user_input[1] = user_input[2]
    /\ user_context[1] = user_context[2]
    /\ OutcomesSeen(1) = OutcomesSeen(2)
    /\ Raised(1, "execute_task")
    /\ ret[1].kind = "return"
    /\ ret[2].kind = "return"
    /\ ret[1] # ret[2]
    /\ hcPc = "done"

\* C21: over any sequence of process_request calls, the number of
\* log_interaction calls is at most the number of execute_task calls that
\* returned, which is at most the number of validate_request calls that
\* returned compliant; within a call, execute_task is invoked only after
\* validate_request returned compliant, and log_interaction only after
\* execute_task returned.
C21_LoggedAtMostExecutedAtMostCompliant ==
    /\ tally.logged <= tally.executeReturned
    /\ tally.executeReturned <= tally.compliant
    /\ tally.executed <= tally.compliant
    /\ \A c \in Threads :
        /\ NumCalls(c, "execute_task") > 0 => CompliantCall(c)
        /\ (Raised(c, "validate_request") \/ NonCompliantCall(c)) =>
                NumCalls(c, "execute_task") = 0
        /\ NumCalls(c, "log_interaction") > 0 => Returned(c, "execute_task")
        /\ Raised(c, "execute_task") => NumCalls(c, "log_interaction") = 0

\* C21 witness: two calls validated compliant and reached execute_task, which
\* returned for one and raised for the other; only the first was logged.
C21_Witness ==
    /\ nRequests = 2
    /\ pc[1] = "done"
    /\ Raised(1, "execute_task")
    /\ tally.compliant = 2
    /\ tally.executed = 2
    /\ tally.executeReturned = 1
    /\ tally.logged = 1

\* C22: when validate_request returns compliant and execute_task returns a
\* TaskResult but log_interaction then raises, process_request returns the
\* generic error record (status "error") and not the TaskResult, and
\* execute_task has been invoked exactly once.
C22_LogFailureBecomesErrorRecord ==
    \A c \in Threads :
        (/\ pc[c] = "done"
         /\ CompliantCall(c)
         /\ Returned(c, "execute_task")
         /\ Raised(c, "log_interaction")) =>
            /\ ReturnedStatus(c, "error")
            /\ ret[c].value.message = "An error occurred processing your request"
            /\ ret[c].value # ValueReturned(c, "execute_task")
            /\ NumCalls(c, "execute_task") = 1

\* C23: when two process_request calls on one facade interleave at the
\* granularity of collaborator calls, each call keeps its own outcome:
\* execute_task is never invoked for a call whose validation was
\* non-compliant, every log_interaction call carries the user_input, the
\* user_context and the TaskResult of the call that makes it, a rejected call
\* returns the rejection record with its own reason, and a call that was
\* logged returns the TaskResult its own execute_task returned.
C23_InterleavedCallsKeepTheirOwnOutcome ==
    \A c \in Threads :
        /\ NonCompliantCall(c) => NumCalls(c, "execute_task") = 0
        /\ \A i \in CallsTo(c, "log_interaction") :
            /\ trace[c][i].call.request = user_input[c]
            /\ trace[c][i].call.user_context = user_context[c]
            /\ trace[c][i].call.response = ValueReturned(c, "execute_task")
        /\ (pc[c] = "done" /\ NonCompliantCall(c)) =>
            /\ ReturnedStatus(c, "rejected")
            /\ ret[c].value.message =
                   "Request violates corporate policy: "
                       \o ValueReturned(c, "validate_request").reason
        /\ (pc[c] = "done" /\ Returned(c, "log_interaction")) =>
            ret[c] = Return(ValueReturned(c, "execute_task"))

\* C23 witness: the two calls are in progress at once, with different
\* arguments; execute_task has returned a different TaskResult to each and
\* both are about to call log_interaction.
C23_Witness ==
    /\ pc[1] = "log"
    /\ pc[2] = "log"
    /\ user_input[1] # user_input[2]
    /\ user_context[1] # user_context[2]
    /\ result[1] # result[2]

\* The working directory tree holds every directory of `directories` and
\* every generated file with the content generate_all_files gives it.
HoldsGeneratedTree(tree) ==
    /\ \A i \in 1..Len(directories) :
        \A d \in Prefixes(directories[i]) : tree[d] = Dir
    /\ \A i \in 1..Len(GeneratedFiles) :
        /\ tree[GeneratedFiles[i].filepath] = File(GeneratedFiles[i].content)
        /\ \A d \in Prefixes(Parent(GeneratedFiles[i].filepath)) : tree[d] = Dir

\* C24: the generator is idempotent: a run of generate_repo.py that follows
\* a completed run in the same working directory completes too, and leaves
\* the directories and files, with their contents, that the first run left;
\* and create_file makes the missing parent directories of its file and
\* replaces whatever the file held.  Within a run, once a create_file call
\* has returned, its file holds exactly its content and its parents are
\* directories.  Called on its own, create_file returns whenever no file
\* stands where a parent directory is needed and no directory stands where
\* the file is; it then leaves every directory above the file made, the
\* file holding exactly the new content, and every other path as it was.
C24_GeneratorIsIdempotent ==
    /\ \A k \in 1..Len(genRuns) :
        (k > 1 /\ genRuns[k - 1].out.kind = "return") =>
            /\ genRuns[k].out.kind = "return"
            /\ genRuns[k].fs = genRuns[1].fs
    /\ \A k \in 1..Len(genRuns) :
        genRuns[k].out.kind = "return" => HoldsGeneratedTree(genRuns[k].fs)
    /\ genPc.phase = "files" =>
        \A j \in 1..(genPc.i - 1) :
            /\ fs[GeneratedFiles[j].filepath] = File(GeneratedFiles[j].content)
            /\ \A d \in Prefixes(Parent(GeneratedFiles[j].filepath)) : fs[d] = Dir
    /\ lastCreate.out.kind # "none" =>
        LET above == Prefixes(Parent(lastCreate.filepath)) IN
        /\ (/\ \A d \in above : lastCreate.before[d].kind # "file"
            /\ lastCreate.before[lastCreate.filepath].kind # "dir") =>
                lastCreate.out.kind = "return"
        /\ lastCreate.out.kind = "return" =>
            /\ \A d \in above : lastCreate.fs[d] = Dir
            /\ lastCreate.fs[lastCreate.filepath] = File(lastCreate.content)
            /\ \A q \in AllPaths \ (above \cup {lastCreate.filepath}) :
                lastCreate.fs[q] = lastCreate.before[q]

\* C24 witness: create_file was called on its own for tests/unit/test_main.py
\* where neither tests/ nor tests/unit/ existed, and made both.  The first
\* run then started where main.py held something else and config/ did not
\* exist, and completed; the user edited config/snowflake_config.toml; the
\* second run completed and left what the first had left.
C24_Witness ==
    /\ lastCreate.filepath = <<"tests", "unit", "test_main.py">>
    /\ lastCreate.before[<<"tests">>] = Absent
    /\ lastCreate.before[<<"tests", "unit">>] = Absent
    /\ lastCreate.out.kind = "return"
    /\ lastCreate.fs[<<"tests", "unit">>] = Dir
    /\ lastCreate.fs[<<"tests", "unit", "test_main.py">>] = File(EditedContent)
    /\ Len(genRuns) = 2
    /\ genRuns[1].out.kind = "return"
    /\ genRuns[2].out.kind = "return"
    /\ genRuns[1].before[<<"main.py">>] = File(StaleContent)
    /\ genRuns[1].before[<<"tests", "unit", "test_main.py">>] = File(EditedContent)
    /\ genRuns[1].before[<<"config">>] = Absent
    /\ genRuns[2].before[<<"config", "snowflake_config.toml">>] = File(EditedContent)
    /\ genRuns[2].before # genRuns[1].fs
    /\ genRuns[2].fs = genRuns[1].fs

=============================================================================
